---- MODULE Spec2Model ----
(***************************************************************************)
(* Tab prioritization and clustering engine of tabs-ai-clustering.         *)
(*                                                                         *)
(* Two copies of the engine exist: GroqService (backend) and GroqAIService *)
(* (extension).  The variable service says which copy a behaviour runs.    *)
(*                                                                         *)
(* Strings the code computes with (host names, cluster names) are          *)
(* sequences of one-character strings.  Titles are single letters ordered  *)
(* as localeCompare orders them.  A clusterPriority is a JavaScript number;*)
(* here it is the exact rational multiplied by Scale.                      *)
(*                                                                         *)
(* Spec          clusterAndSortTabs on a batch, over the provider outcomes *)
(* SpecValidate  validateAndSortClusters on the arrays a provider can send *)
(* SpecScore     analyzeAndPrioritizeTab on one tab, over the raw scores   *)
(* SpecAnalyze   analyzeTabs of GroqService, its per-tab calls concurrent  *)
(* SpecServer    the POST /api/analyze handlers and the usage quota        *)
(* SpecExtension the popups' analyses against TabManager and the storage   *)
(* SpecOrganize  organizeTabsIntoGroups on the tab strip of a window       *)
(***************************************************************************)
EXTENDS Integers, Sequences, FiniteSets, TLC

VARIABLES service, apiKey, tabSummaries, reply, clusters, calls,
          revalidated, tabData, response, analysis, pc,
          inputTabs, status, results, req, user, res,
          strip, tabManager, storage, popup, organizer, removed

\* the state of one analyzeTabs call: its argument, its per-tab calls, its result
analyzeVars == <<inputTabs, status, results>>

\* the state of one /api/analyze request: the request (with the user row as
\* it was on arrival and as the handler read it), the user row, the response
serverVars == <<req, user, res>>

\* the browser extension: the tab strip of the window, the TabManager of the
\* background page, browser.storage.local, the popups, a run of
\* organizeTabsIntoGroups, and the tab ids tabs.onRemoved has fired for
extensionVars == <<strip, tabManager, storage, popup, organizer, removed>>

vars == <<service, apiKey, tabSummaries, reply, clusters, calls,
          revalidated, tabData, response, analysis, pc,
          analyzeVars, serverVars, extensionVars>>

(***************************************************************************)
(* Bounds of the model.                                                    *)
(***************************************************************************)
\* analyses in a batch handed to clusterAndSortTabs
MaxTabs == 3
\* analyses in a batch handed to validateAndSortClusters alone
MaxBatch == 2
\* clusters in a candidate array, and ids named by all of them together
MaxClusters == 2
MaxMentions == 2
\* raw priorityScore numbers run from -MaxBelowZero to MaxRaw
MaxBelowZero == 2
MaxRaw == 7

Services == {"GroqService", "GroqAIService"}

Max(a, b) == IF a > b THEN a ELSE b
Min(a, b) == IF a < b THEN a ELSE b

RECURSIVE Fact(_)
Fact(n) == IF n <= 1 THEN 1 ELSE n * Fact(n - 1)

\* clusterPriority values are multiples of 1/Scale
Scale == 10 * Fact(Max(MaxTabs, MaxBatch))

\* the clusterPriority 0 / 0 of a cluster left without tabs
NaN == -1

(***************************************************************************)
(* Strings                                                                 *)
(***************************************************************************)
Lower == <<"a","b","c","d","e","f","g","h","i","j","k","l","m",
           "n","o","p","q","r","s","t","u","v","w","x","y","z">>
Upper == <<"A","B","C","D","E","F","G","H","I","J","K","L","M",
           "N","O","P","Q","R","S","T","U","V","W","X","Y","Z">>

\* String.prototype.toUpperCase on one character
ToUpperCase(c) ==
  IF \E i \in DOMAIN Lower : Lower[i] = c
  THEN Upper[CHOOSE i \in DOMAIN Lower : Lower[i] = c]
  ELSE c

\* positions where pat occurs in s
Occurrences(s, pat) ==
  {i \in 1..(Len(s) - Len(pat) + 1) : SubSeq(s, i, i + Len(pat) - 1) = pat}

\* String.prototype.replace(pat, rep) with a string pattern: first occurrence
Replace(s, pat, rep) ==
  IF Occurrences(s, pat) = {} THEN s
  ELSE LET i == CHOOSE k \in Occurrences(s, pat) :
                   \A j \in Occurrences(s, pat) : k <= j
       IN SubSeq(s, 1, i - 1) \o rep \o SubSeq(s, i + Len(pat), Len(s))

\* s.split(sep)[0] for a one-character separator
SplitFirst(s, sep) ==
  IF Occurrences(s, <<sep>>) = {} THEN s
  ELSE LET i == CHOOSE k \in Occurrences(s, <<sep>>) :
                   \A j \in Occurrences(s, <<sep>>) : k <= j
       IN SubSeq(s, 1, i - 1)

\* key.charAt(0).toUpperCase() + key.slice(1)
Capitalize(key) ==
  IF key = <<>> THEN <<>> ELSE <<ToUpperCase(Head(key))>> \o Tail(key)

StrOther == <<"O","t","h","e","r">>
StrOtherKey == <<"o","t","h","e","r">>
StrUnknown == <<"u","n","k","n","o","w","n">>
StrAllTabs == <<"A","l","l"," ","T","a","b","s">>
StrAllYourOpenTabs == <<"A","l","l"," ","y","o","u","r"," ","o","p","e","n"," ","t","a","b","s">>
StrUncategorized == <<"U","n","c","a","t","e","g","o","r","i","z","e","d"," ","t","a","b","s">>
StrMiscellaneous == <<"M","i","s","c","e","l","l","a","n","e","o","u","s"," ","p","a","g","e","s">>
StrPagesFrom == <<"P","a","g","e","s"," ","f","r","o","m"," ">>
StrWwwDot == <<"w","w","w",".">>

(***************************************************************************)
(* Array.prototype.sort: stable, cmp(a, b) < 0 puts a first                *)
(***************************************************************************)
StableSort(s, cmp(_, _)) ==
  LET n == Len(s)
      rank(i) == Cardinality({j \in 1..n :
                    \/ cmp(s[j], s[i]) < 0
                    \/ cmp(s[j], s[i]) = 0 /\ j < i}) + 1
  IN [p \in 1..n |-> s[CHOOSE i \in 1..n : rank(i) = p]]

RECURSIVE SumSeq(_)
SumSeq(s) == IF s = <<>> THEN 0 ELSE Head(s) + SumSeq(Tail(s))

Range(s) == {s[i] : i \in DOMAIN s}

\* Array.prototype.map
MapSeq(s, f(_)) == [i \in DOMAIN s |-> f(s[i])]

\* Array.prototype.filter
FilterSeq(s, keep(_)) == SelectSeq(s, keep)

(***************************************************************************)
(* Tab analyses                                                            *)
(***************************************************************************)
TitleLetters == <<"A", "B">>
Titles == Range(TitleLetters)

TitleRank(t) == CHOOSE i \in DOMAIN TitleLetters : TitleLetters[i] = t

\* a.localeCompare(b)
LocaleCompare(a, b) == TitleRank(a) - TitleRank(b)

\* new Map(tabSummaries.map(tab => [tab.id, tab])): the last entry of an id wins
TabMap(tabs) ==
  [id \in {tabs[i].id : i \in DOMAIN tabs} |->
     tabs[CHOOSE i \in DOMAIN tabs :
            /\ tabs[i].id = id
            /\ \A j \in DOMAIN tabs : tabs[j].id = id => j <= i]]

\* x || 3 on a number that is not NaN
OrThree(x) == IF x = 0 THEN 3 ELSE x

(***************************************************************************)
(* Clusters.  A cluster is a JSON value: json = "null" is a null array     *)
(* element, an absent name is the empty string, a tabIds that is no array  *)
(* has tabIdsIsArray = FALSE, a clusterPriority not yet computed is 0.     *)
(***************************************************************************)
Cluster(name, description, tabIds, clusterPriority) ==
  [json |-> "object", name |-> name, description |-> description,
   tabIds |-> tabIds, tabIdsIsArray |-> TRUE,
   clusterPriority |-> clusterPriority]

\* sum / n as a JavaScript number
Mean(sum, n) == IF n = 0 THEN NaN ELSE (sum * Scale) \div n

\* Math.round(sum / n * 10) / 10
RoundedMean(sum, n) ==
  IF n = 0 THEN NaN ELSE ((20 * sum + n) \div (2 * n)) * (Scale \div 10)

\* (a, b) => a.clusterPriority - b.clusterPriority
ByClusterPriority(a, b) == a.clusterPriority - b.clusterPriority

(***************************************************************************)
(* fallbackClustering                                                      *)
(***************************************************************************)
\* new URL(tab.url) throws on an unparseable url
UrlThrows(tab) == ~tab.url.valid

\* new URL(tab.url).hostname.replace('www.', '')
Domain(tab) == Replace(tab.url.hostname, StrWwwDot, <<>>)

\* domain.split('.')[0] || 'unknown'   (the extension has no || 'unknown')
ClusterKey(svc, tab) ==
  LET key == SplitFirst(Domain(tab), ".")
  IN IF svc = "GroqService" /\ key = <<>> THEN StrUnknown ELSE key

\* the Map entry a tab opens when its key is new
NewDomainCluster(svc, tab) ==
  IF UrlThrows(tab)
  THEN [key |-> StrOtherKey,
        cluster |-> Cluster(StrOther, StrMiscellaneous, <<>>, 0)]
  ELSE [key |-> ClusterKey(svc, tab),
        cluster |-> Cluster(Capitalize(ClusterKey(svc, tab)),
                            StrPagesFrom \o Domain(tab), <<>>, 0)]

\* domainClusters.get(key).tabIds.push(tab.id), the entry created when absent
PushTab(entries, svc, tab) ==
  LET new == NewDomainCluster(svc, tab)
      all == IF \E i \in DOMAIN entries : entries[i].key = new.key
             THEN entries ELSE Append(entries, new)
  IN [i \in DOMAIN all |->
        IF all[i].key = new.key
        THEN [all[i] EXCEPT !.cluster.tabIds = Append(@, tab.id)]
        ELSE all[i]]

\* tabSummaries.forEach(...): the Map in insertion order
RECURSIVE DomainClusters(_, _, _)
DomainClusters(svc, tabs, entries) ==
  IF tabs = <<>> THEN entries
  ELSE LET tab == Head(tabs)
       IN IF UrlThrows(tab) /\ svc = "GroqAIService"
          THEN DomainClusters(svc, Tail(tabs), entries)
          ELSE DomainClusters(svc, Tail(tabs), PushTab(entries, svc, tab))

\* the sort and the priority of one fallback cluster
FallbackFinish(cluster, tabs) ==
  LET tabMap == TabMap(tabs)
      score(id) == IF id \in DOMAIN tabMap
                   THEN OrThree(tabMap[id].priorityScore) ELSE 3
      cmp(a, b) == score(a) - score(b)
      sorted == StableSort(cluster.tabIds, cmp)
  IN [cluster EXCEPT
        !.tabIds = sorted,
        !.clusterPriority = Mean(SumSeq(MapSeq(sorted, score)), Len(sorted))]

FallbackClustering(svc, tabs) ==
  LET entries == DomainClusters(svc, tabs, <<>>)
      values == [i \in DOMAIN entries |-> entries[i].cluster]
      nonEmpty(c) == Len(c.tabIds) > 0
      finish(c) == FallbackFinish(c, tabs)
      result == MapSeq(FilterSeq(values, nonEmpty), finish)
  IN StableSort(result, ByClusterPriority)

(***************************************************************************)
(* validateAndSortClusters                                                 *)
(***************************************************************************)
\* HasNameAndTabIds not looking at the name
HasTabIds(cluster) == cluster.tabIdsIsArray

\* cluster.name && cluster.tabIds && Array.isArray(cluster.tabIds)
HasNameAndTabIds(cluster) == cluster.name # <<>> /\ cluster.tabIdsIsArray

\* IsValidTabId forgetting the ids already assigned
IsValidTabIdNoClaim(id, tabMap, assignedTabIds) == id \in DOMAIN tabMap

\* tabMap.has(id) && !assignedTabIds.has(id)
IsValidTabId(id, tabMap, assignedTabIds) ==
  id \in DOMAIN tabMap /\ id \notin assignedTabIds

\* cluster.tabIds.filter(...): the ids one cluster keeps, in their order
RECURSIVE KeptTabIds(_, _, _)
KeptTabIds(tabIds, tabMap, assignedTabIds) ==
  IF tabIds = <<>> THEN <<>>
  ELSE IF IsValidTabId(Head(tabIds), tabMap, assignedTabIds)
       THEN <<Head(tabIds)>> \o
            KeptTabIds(Tail(tabIds), tabMap, assignedTabIds \cup {Head(tabIds)})
       ELSE KeptTabIds(Tail(tabIds), tabMap, assignedTabIds)

\* (a, b) => priorityScore difference, then title.localeCompare
ByScoreThenTitle(tabA, tabB) ==
  IF tabA.priorityScore # tabB.priorityScore
  THEN tabA.priorityScore - tabB.priorityScore
  ELSE LocaleCompare(tabA.title, tabB.title)

\* the body of .map(cluster => ...) once the ids are filtered
SortAndRate(cluster, kept, tabMap) ==
  LET cmp(a, b) == ByScoreThenTitle(tabMap[a], tabMap[b])
      score(id) == tabMap[id].priorityScore
      sorted == StableSort(kept, cmp)
  IN [cluster EXCEPT
        !.tabIds = sorted,
        !.clusterPriority = RoundedMean(SumSeq(MapSeq(sorted, score)), Len(sorted))]

\* ClaimTabs walking the clusters from the last one to the first
RECURSIVE ClaimTabsBackwards(_, _, _)
ClaimTabsBackwards(cs, tabMap, assignedTabIds) ==
  IF cs = <<>> THEN <<>>
  ELSE LET last == cs[Len(cs)]
           kept == KeptTabIds(last.tabIds, tabMap, assignedTabIds)
       IN ClaimTabsBackwards(SubSeq(cs, 1, Len(cs) - 1), tabMap,
                             assignedTabIds \cup Range(kept))
          \o <<SortAndRate(last, kept, tabMap)>>

\* .map(...) over the clusters in order, assignedTabIds growing as it goes
RECURSIVE ClaimTabs(_, _, _)
ClaimTabs(cs, tabMap, assignedTabIds) ==
  IF cs = <<>> THEN <<>>
  ELSE LET kept == KeptTabIds(Head(cs).tabIds, tabMap, assignedTabIds)
       IN <<SortAndRate(Head(cs), kept, tabMap)>> \o
          ClaimTabs(Tail(cs), tabMap, assignedTabIds \cup Range(kept))

\* the ids in assignedTabIds after the walk
AssignedTabIds(claimed) == UNION {Range(claimed[i].tabIds) : i \in DOMAIN claimed}

\* the cluster of unassigned tabs
OtherCluster(unassignedTabs) ==
  LET id(tab) == tab.id
      score(tab) == tab.priorityScore
      sortedUnassigned == MapSeq(StableSort(unassignedTabs, ByScoreThenTitle), id)
  IN Cluster(StrOther, StrUncategorized, sortedUnassigned,
             Mean(SumSeq(MapSeq(unassignedTabs, score)), Len(unassignedTabs)))

\* validClusters, the cluster of unassigned tabs pushed
ValidClusters(items, tabs) ==
  LET tabMap == TabMap(tabs)
      claimed == ClaimTabs(FilterSeq(items, HasNameAndTabIds), tabMap, {})
      nonEmpty(c) == Len(c.tabIds) > 0
      validClusters == FilterSeq(claimed, nonEmpty)
      unassigned(tab) == tab.id \notin AssignedTabIds(claimed)
      unassignedTabs == FilterSeq(tabs, unassigned)
  IN IF Len(unassignedTabs) > 0
     THEN Append(validClusters, OtherCluster(unassignedTabs))
     ELSE validClusters

\* ValidateAndSortClusters returning validClusters without the final sort
ValidateWithoutSort(svc, parsed, tabs) ==
  IF ~parsed.isArray THEN FallbackClustering(svc, tabs)
  ELSE ValidClusters(parsed.items, tabs)

\* parsed is the JSON value handed in: [isArray, items]
ValidateAndSortClusters(svc, parsed, tabs) ==
  IF ~parsed.isArray THEN FallbackClustering(svc, tabs)
  ELSE StableSort(ValidClusters(parsed.items, tabs), ByClusterPriority)

\* a cluster list as the JSON array it is
AsArray(cs) == [isArray |-> TRUE, items |-> cs]

(***************************************************************************)
(* Inputs                                                                  *)
(***************************************************************************)
UrlNews ==
  [valid |-> TRUE,
   hostname |-> <<"n","e","w","s",".","y","c","o","m","b","i","n","a","t","o","r",
                  ".","c","o","m">>]
UrlWwwExample ==
  [valid |-> TRUE,
   hostname |-> <<"w","w","w",".","e","x","a","m","p","l","e",".","c","o","m">>]
UrlInvalid == [valid |-> FALSE, hostname |-> <<>>]

Urls == {UrlNews, UrlWwwExample, UrlInvalid}

BatchScores == {1, 2}

\* the tabs of the batches clustered: either title on the news host, so that
\* equal scores meet with both title orders, and title "A" on the other urls
TabKinds ==
  [title : {"A"}, url : Urls, priorityScore : BatchScores]
  \cup [title : {"B"}, url : {UrlNews}, priorityScore : BatchScores]

\* the tabs of the batches validated alone: url and title play no part
ValidatedTabKinds == [title : {"A"}, url : {UrlNews}, priorityScore : BatchScores]

\* the analyses of a batch of n tabs, their ids 1..n unique
BatchesOf(n, kinds) ==
  {[i \in 1..n |-> [id |-> i, title |-> f[i].title, url |-> f[i].url,
                    priorityScore |-> f[i].priorityScore]] :
     f \in [1..n -> kinds]}

Batches(max, kinds) == UNION {BatchesOf(n, kinds) : n \in 0..max}

\* an id that is no tab's id
UnknownId == MaxTabs + MaxBatch + 1

SeqsUpTo(S, max) == UNION {[1..n -> S] : n \in 0..max}

StrWork == <<"W","o","r","k">>
StrTopic == <<"T","o","p","i","c">>

NullElement ==
  [json |-> "null", name |-> <<>>, description |-> <<>>, tabIds |-> <<>>,
   tabIdsIsArray |-> FALSE, clusterPriority |-> 0]

Candidate(name, tabIds, isArray) ==
  [json |-> "object", name |-> name, description |-> StrTopic,
   tabIds |-> tabIds, tabIdsIsArray |-> isArray, clusterPriority |-> 0]

\* the array elements a provider can send about the ids 1..n, naming at
\* most m ids: a named object, one of another name naming one id, one
\* without a name (naming one id at most), an object with a tabIds that is no array, or null
CandidateClusters(n, m) ==
  {Candidate(StrWork, ids, TRUE) : ids \in SeqsUpTo(1..n \cup {UnknownId}, m)}
  \cup {Candidate(StrTopic, <<id>>, TRUE) : id \in IF m = 0 THEN {} ELSE 1..n}
  \cup {Candidate(<<>>, ids, TRUE) :
          ids \in SeqsUpTo(1..n \cup {UnknownId}, Min(m, 1))}
  \cup {Candidate(StrWork, <<>>, FALSE), NullElement}

\* the arrays of at most c such clusters that name at most m ids in all
RECURSIVE ArraysWithin(_, _, _)
ArraysWithin(n, c, m) ==
  {<<>>} \cup
  (IF c = 0 THEN {}
   ELSE UNION {{<<cl>> \o rest : rest \in ArraysWithin(n, c - 1, m - Len(cl.tabIds))} :
                 cl \in CandidateClusters(n, m)})

CandidateArrays(n) ==
  {AsArray(items) : items \in ArraysWithin(n, MaxClusters, MaxMentions)}

\* the arrays the provider answers a clustering request with
ReplyArrays ==
  {AsArray(<<>>),
   AsArray(<<Candidate(StrWork, <<1>>, TRUE)>>),
   AsArray(<<Candidate(StrWork, <<2, 1>>, TRUE)>>),
   AsArray(<<Candidate(StrWork, <<UnknownId, 2>>, TRUE)>>),
   AsArray(<<NullElement>>)}

NonArray == [isArray |-> FALSE, items |-> <<>>]

NoReply == [kind |-> "none", parsed |-> NonArray]
NoTab == [id |-> 0, title |-> "A", url |-> UrlInvalid, priorityScore |-> 0]
NoAnalysis == [id |-> 0, title |-> "A", priorityScore |-> 0,
               priorityRationale |-> "", error |-> FALSE]

\* ValidateThrows when an id without analysis raises as well
ValidateThrowsOnUnknownId(parsed) ==
  parsed.isArray /\ \E i \in DOMAIN parsed.items :
    \/ parsed.items[i].json = "null"
    \/ UnknownId \in Range(parsed.items[i].tabIds)

\* reading cluster.name of a null element raises a TypeError
ValidateThrows(parsed) ==
  parsed.isArray /\ \E i \in DOMAIN parsed.items : parsed.items[i].json = "null"

(***************************************************************************)
(* analyzeAndPrioritizeTab: the priorityScore                              *)
(***************************************************************************)
Digits == <<"0","1","2","3","4","5","6","7","8","9">>
IsDigit(c) == \E i \in DOMAIN Digits : Digits[i] = c
DigitValue(c) == (CHOOSE i \in DOMAIN Digits : Digits[i] = c) - 1

\* the value of the digits s starts with, acc the value read so far
RECURSIVE LeadingDigits(_, _)
LeadingDigits(s, acc) ==
  IF s = <<>> \/ ~IsDigit(Head(s)) THEN acc
  ELSE LeadingDigits(Tail(s), 10 * acc + DigitValue(Head(s)))

RECURSIVE TrimStart(_)
TrimStart(s) == IF s # <<>> /\ Head(s) = " " THEN TrimStart(Tail(s)) ELSE s

NotANumber == [nan |-> TRUE, value |-> 0]
Number(n) == [nan |-> FALSE, value |-> n]

\* parseInt of a string: blanks, a sign, then digits; NaN when no digit follows
ParseIntString(chars) ==
  LET t == TrimStart(chars)
      negative == t # <<>> /\ Head(t) = "-"
      body == IF t # <<>> /\ Head(t) \in {"-", "+"} THEN Tail(t) ELSE t
  IN IF body = <<>> \/ ~IsDigit(Head(body)) THEN NotANumber
     ELSE Number((IF negative THEN -1 ELSE 1) * LeadingDigits(body, 0))

\* parseInt of a number given in tenths: its decimal text up to the point
ParseIntNumber(tenths) ==
  Number(IF tenths < 0 THEN -((-tenths) \div 10) ELSE tenths \div 10)

\* parseInt(parsed.priorityScore)
ParseInt(raw) ==
  CASE raw.type = "number" -> ParseIntNumber(raw.tenths)
    [] raw.type = "string" -> ParseIntString(raw.chars)
    [] OTHER -> NotANumber

\* Math.min(5, Math.max(1, parseInt(parsed.priorityScore) || 3))
ClampScore(raw) ==
  LET n == ParseInt(raw)
      orThree == IF n.nan THEN 3 ELSE OrThree(n.value)
  IN Min(5, Max(1, orThree))

RawNumber(tenths) == [type |-> "number", tenths |-> tenths, chars |-> <<>>]
RawString(chars) == [type |-> "string", tenths |-> 0, chars |-> chars]
RawNull == [type |-> "null", tenths |-> 0, chars |-> <<>>]
RawAbsent == [type |-> "undefined", tenths |-> 0, chars |-> <<>>]
RawTrue == [type |-> "boolean", tenths |-> 0, chars |-> <<>>]

StrHigh == <<"h","i","g","h">>
RawStrings == {StrHigh, <<>>, <<"4">>, <<"0">>, <<"7">>, <<"-","2">>,
               <<" ","3">>, <<"2",".","7">>, <<"1","2">>}

\* the priorityScore values a provider answer can carry
RawScores ==
  {RawNumber(t) : t \in (-10 * MaxBelowZero)..(10 * MaxRaw)}
  \cup {RawString(c) : c \in RawStrings}
  \cup {RawNull, RawAbsent, RawTrue}

NoResponse == [kind |-> "none", priorityScore |-> RawAbsent]

NoResult == [returned |-> FALSE, summaries |-> <<>>, clusters |-> <<>>,
             processed |-> 0, errors |-> 0]

\* analyzeTabs is not running
NoAnalyzeTabs ==
  /\ inputTabs = <<>>
  /\ status = <<>>
  /\ results = NoResult

NoUser == [found |-> FALSE, usageThisMonth |-> 0, usageLimit |-> 0]
NoBody == [kind |-> "missing", tabs |-> 0]
NoRes == [status |-> 0, error |-> "", current |-> 0, limit |-> 0]

\* no request is being handled
NoRequest ==
  /\ req = [server |-> "none", token |-> "none", body |-> NoBody, user |-> NoUser,
            arrival |-> NoUser, results |-> "none"]
  /\ user = NoUser
  /\ res = NoRes

NoBatch == "none"

\* new TabManager(): empty maps, no clusters, not analyzing
NewTabManager ==
  [tabs |-> <<>>, tabSummaries |-> <<>>, clusters |-> <<>>, isAnalyzing |-> FALSE,
   summariesFrom |-> NoBatch, clustersFrom |-> NoBatch]

\* browser.storage.local without an analysis
EmptyStorage ==
  [tabSummaries |-> <<>>, clusters |-> <<>>,
   summariesFrom |-> NoBatch, clustersFrom |-> NoBatch]

NoOrganizer ==
  [pc |-> "idle", queue |-> <<>>, targetIndex |-> 0, moved |-> <<>>, failed |-> FALSE]

\* no extension is running
NoExtension ==
  /\ strip = <<>>
  /\ tabManager = NewTabManager
  /\ storage = EmptyStorage
  /\ popup = <<>>
  /\ organizer = NoOrganizer
  /\ removed = {}

(***************************************************************************)
(* clusterAndSortTabs                                                      *)
(***************************************************************************)
\* the single cluster GroqService returns for fewer than two analyses
AllTabsCluster(tabs) ==
  LET id(t) == t.id
  IN Cluster(StrAllTabs, StrAllYourOpenTabs, MapSeq(tabs, id),
             (IF Len(tabs) > 0 THEN OrThree(tabs[1].priorityScore) ELSE 3) * Scale)

\* what clusterAndSortTabs returns for fewer than two analyses
FewTabsResult(svc, tabs) ==
  IF svc = "GroqService" THEN <<AllTabsCluster(tabs)>>
  ELSE FallbackClustering(svc, tabs)

\* what the catch block of clusterAndSortTabs returns
CatchResult(svc, tabs) == FallbackClustering(svc, tabs)

\* the response text holds no JSON that parses
UnparseableResult(svc, tabs) ==
  IF svc = "GroqService"
  THEN ValidateAndSortClusters(svc, AsArray(FallbackClustering(svc, tabs)), tabs)
  ELSE FallbackClustering(svc, tabs)

Returns(kind, parsed, result, called) ==
  /\ pc' = "done"
  /\ reply' = [kind |-> kind, parsed |-> parsed]
  /\ clusters' = result
  /\ calls' = called
  /\ UNCHANGED <<service, tabSummaries, revalidated, tabData, response,
                 analysis>>
  /\ UNCHANGED <<analyzeVars, serverVars, extensionVars>>

\* getApiKey() of the extension: the key cached, else the one in storage
\* (stored says whether storage holds one); GroqService has its key from env
GetApiKey(stored) ==
  apiKey' = IF service = "GroqAIService" THEN (apiKey \/ stored) ELSE apiKey

\* two analyses or more and a key: the provider is sent the request
ProviderAsked ==
  /\ pc = "start"
  /\ Len(tabSummaries) >= 2
  /\ GetApiKey(TRUE)

ClusterFewTabs ==
  /\ pc = "start"
  /\ Len(tabSummaries) < 2
  /\ \E stored \in BOOLEAN : GetApiKey(stored)
  /\ Returns("fewTabs", NonArray, FewTabsResult(service, tabSummaries),
             IF service = "GroqService" THEN <<>> ELSE <<"fallbackClustering">>)

ClusterWithoutApiKey ==
  /\ pc = "start"
  /\ Len(tabSummaries) >= 2
  /\ service = "GroqAIService"
  /\ ~apiKey
  /\ GetApiKey(FALSE)
  /\ Returns("noApiKey", NonArray, FallbackClustering(service, tabSummaries),
             <<"fallbackClustering">>)

\* fetch rejects, the status is not 2xx, or the body has no choices[0].message
ClusterRequestFailed ==
  /\ ProviderAsked
  /\ Returns("requestFailed", NonArray, CatchResult(service, tabSummaries),
             <<"fetch", "fallbackClustering">>)

ClusterUnparseable ==
  /\ ProviderAsked
  /\ Returns("unparseable", NonArray, UnparseableResult(service, tabSummaries),
             IF service = "GroqService"
             THEN <<"fetch", "parseClusteringResponse", "fallbackClustering",
                    "validateAndSortClusters">>
             ELSE <<"fetch", "fallbackClustering">>)

\* the text is JSON but holds no [...]: only GroqService parses the whole text
ClusterNonArray ==
  /\ ProviderAsked
  /\ Returns("nonArray", NonArray,
             IF service = "GroqService"
             THEN ValidateAndSortClusters(service, NonArray, tabSummaries)
             ELSE CatchResult(service, tabSummaries),
             IF service = "GroqService"
             THEN <<"fetch", "parseClusteringResponse", "validateAndSortClusters",
                    "fallbackClustering">>
             ELSE <<"fetch", "fallbackClustering">>)

ClusterArray ==
  /\ ProviderAsked
  /\ \E parsed \in ReplyArrays :
       /\ ~ValidateThrows(parsed)
       /\ Returns("array", parsed,
                  ValidateAndSortClusters(service, parsed, tabSummaries),
                  IF service = "GroqService"
                  THEN <<"fetch", "parseClusteringResponse", "validateAndSortClusters">>
                  ELSE <<"fetch", "validateAndSortClusters">>)

\* an array with a null element: validateAndSortClusters throws, the catch runs
ClusterArrayThrows ==
  /\ ProviderAsked
  /\ \E parsed \in ReplyArrays :
       /\ ValidateThrows(parsed)
       /\ Returns("throwingArray", parsed, CatchResult(service, tabSummaries),
                  IF service = "GroqService"
                  THEN <<"fetch", "parseClusteringResponse", "validateAndSortClusters",
                         "fallbackClustering">>
                  ELSE <<"fetch", "validateAndSortClusters", "fallbackClustering">>)

\* validateAndSortClusters run again on the clusters returned
Revalidate ==
  /\ pc = "done"
  /\ calls # <<>>
  /\ calls[Len(calls)] = "validateAndSortClusters"
  /\ pc' = "revalidated"
  /\ revalidated' = ValidateAndSortClusters(service, AsArray(clusters), tabSummaries)
  /\ UNCHANGED <<service, apiKey, tabSummaries, reply, clusters, calls, tabData,
                 response, analysis>>
  /\ UNCHANGED <<analyzeVars, serverVars, extensionVars>>

Init ==
  /\ service \in Services
  /\ apiKey = (service = "GroqService")
  /\ tabSummaries \in Batches(MaxTabs, TabKinds)
  /\ reply = NoReply
  /\ clusters = <<>>
  /\ calls = <<>>
  /\ revalidated = <<>>
  /\ tabData = NoTab
  /\ response = NoResponse
  /\ analysis = NoAnalysis
  /\ pc = "start"
  /\ NoAnalyzeTabs
  /\ NoRequest
  /\ NoExtension

Next ==
  \/ ClusterFewTabs
  \/ ClusterWithoutApiKey
  \/ ClusterRequestFailed
  \/ ClusterUnparseable
  \/ ClusterNonArray
  \/ ClusterArray
  \/ ClusterArrayThrows
  \/ Revalidate

Spec == Init /\ [][Next]_vars

(***************************************************************************)
(* analyzeAndPrioritizeTab on one tab                                      *)
(***************************************************************************)
Analyzed(score, rationale, error) ==
  /\ pc' = "analyzed"
  /\ analysis' = [id |-> tabData.id, title |-> tabData.title,
                  priorityScore |-> score, priorityRationale |-> rationale,
                  error |-> error]
  /\ GetApiKey(TRUE)
  /\ UNCHANGED <<service, tabSummaries, reply, clusters, calls,
                 revalidated, tabData, response>>
  /\ UNCHANGED <<analyzeVars, serverVars, extensionVars>>

\* the extension has no key: analyzeAndPrioritizeTab throws before its try
AnalyzeWithoutApiKey ==
  /\ pc = "start"
  /\ service = "GroqAIService"
  /\ ~apiKey
  /\ GetApiKey(FALSE)
  /\ pc' = "threw"
  /\ UNCHANGED <<service, tabSummaries, reply, clusters, calls,
                 revalidated, tabData, response, analysis>>
  /\ UNCHANGED <<analyzeVars, serverVars, extensionVars>>

\* the request fails: GroqService rejects and analyzeTabs' catch makes the record
AnalyzeRequestFailed ==
  /\ pc = "start"
  /\ response.kind = "requestFailed"
  /\ IF service = "GroqService"
     THEN Analyzed(3, "Analysis unavailable", TRUE)
     ELSE Analyzed(3, "Unable to analyze - default priority assigned", FALSE)

\* no {...} in the text, or JSON.parse throws on it
AnalyzeUnparseable ==
  /\ pc = "start"
  /\ response.kind = "text"
  /\ IF service = "GroqService"
     THEN Analyzed(3, "Unable to determine priority", FALSE)
     ELSE Analyzed(3, "Unable to analyze - default priority assigned", FALSE)

AnalyzeParsed ==
  /\ pc = "start"
  /\ response.kind = "json"
  /\ Analyzed(ClampScore(response.priorityScore), "Standard content", FALSE)

Responses ==
  {[kind |-> k, priorityScore |-> RawAbsent] : k \in {"requestFailed", "text"}}
  \cup {[kind |-> "json", priorityScore |-> raw] : raw \in RawScores}

InitScore ==
  /\ service \in Services
  /\ apiKey = (service = "GroqService")
  /\ tabData \in {[id |-> 1, title |-> t, url |-> UrlNews, priorityScore |-> 0] :
                    t \in Titles}
  /\ response \in Responses
  /\ tabSummaries = <<>>
  /\ reply = NoReply
  /\ clusters = <<>>
  /\ calls = <<>>
  /\ revalidated = <<>>
  /\ analysis = NoAnalysis
  /\ pc = "start"
  /\ NoAnalyzeTabs
  /\ NoRequest
  /\ NoExtension

NextScore ==
  \/ AnalyzeWithoutApiKey
  \/ AnalyzeRequestFailed
  \/ AnalyzeUnparseable
  \/ AnalyzeParsed

SpecScore == InitScore /\ [][NextScore]_vars

(***************************************************************************)
(* validateAndSortClusters on the arrays a provider can send.  The copy in *)
(* the extension has the same text; on an array neither reads the service. *)
(***************************************************************************)
Validate ==
  /\ pc = "start"
  /\ ~ValidateThrows(reply.parsed)
  /\ UNCHANGED apiKey
  /\ Returns("candidate", reply.parsed,
             ValidateAndSortClusters(service, reply.parsed, tabSummaries),
             <<"validateAndSortClusters">>)

InitValidate ==
  /\ service = "GroqService"
  /\ apiKey = TRUE
  /\ tabSummaries \in Batches(MaxBatch, ValidatedTabKinds)
  /\ reply \in {[kind |-> "candidate", parsed |-> a] :
                  a \in CandidateArrays(Len(tabSummaries))}
  /\ clusters = <<>>
  /\ calls = <<>>
  /\ revalidated = <<>>
  /\ tabData = NoTab
  /\ response = NoResponse
  /\ analysis = NoAnalysis
  /\ pc = "start"
  /\ NoAnalyzeTabs
  /\ NoRequest
  /\ NoExtension

\* a null element: validateAndSortClusters raises a TypeError
ValidateRaises ==
  /\ pc = "start"
  /\ ValidateThrows(reply.parsed)
  /\ pc' = "threw"
  /\ calls' = <<"validateAndSortClusters">>
  /\ UNCHANGED <<service, apiKey, tabSummaries, reply, clusters, revalidated,
                 tabData, response, analysis>>
  /\ UNCHANGED <<analyzeVars, serverVars, extensionVars>>

NextValidate ==
  \/ Validate
  \/ ValidateRaises

SpecValidate == InitValidate /\ [][NextValidate]_vars

(***************************************************************************)
(* analyzeTabs of GroqService: the per-tab calls run concurrently under    *)
(* Promise.all, then clusterAndSortTabs runs on their records.             *)
(***************************************************************************)
\* raw tab records in a batch handed to analyzeTabs
MaxInputs == 2

\* a raw tab record: json "null" is a null element, id 0 an absent id, and
\* an absent url is one that new URL() throws on
RawTab(json, id, hasUrl) ==
  [json |-> json, id |-> id, title |-> "A", hasUrl |-> hasUrl,
   url |-> IF hasUrl THEN UrlNews ELSE UrlInvalid]

\* the records the i-th element of the argument can be
RawTabKinds(i) ==
  {RawTab("object", i, TRUE), RawTab("object", 0, TRUE),
   RawTab("object", i, FALSE), RawTab("null", 0, FALSE)}

InputBatches ==
  UNION {{f \in [1..n -> UNION {RawTabKinds(i) : i \in 1..n}] :
            \A i \in 1..n : f[i] \in RawTabKinds(i)} : n \in 0..MaxInputs}

\* what the provider answers a per-tab call with
AnalysisAnswers ==
  {[kind |-> k, priorityScore |-> RawAbsent] : k \in {"requestFailed", "text"}}
  \cup {[kind |-> "json", priorityScore |-> RawNumber(10 * n)] : n \in BatchScores}

\* a TabAnalysis record; summary says what the summary text is made from
Analysis(tab, summary, score, rationale, error) ==
  [id |-> tab.id, title |-> tab.title, url |-> tab.url, summary |-> summary,
   priorityScore |-> score, priorityRationale |-> rationale, error |-> error]

NoSummary == Analysis(NoTab, "", 0, "", FALSE)

\* the record returned when the answer holds a JSON object
ParsedAnalysis(tab, raw) ==
  Analysis(tab, "parsed.summary", ClampScore(raw), "Standard content", FALSE)

\* the record returned when no JSON object can be parsed from the answer
UnparsedAnalysis(tab) ==
  Analysis(tab, "content", 3, "Unable to determine priority", FALSE)

\* DegradedAnalysis losing the tab's id
DegradedAnalysisNoId(tab) ==
  [Analysis(tab, "title - metaDescription", 3, "Analysis unavailable", TRUE)
     EXCEPT !.id = 0]

\* the record the .catch of analyzeTabs makes when the call rejects
DegradedAnalysis(tab) ==
  Analysis(tab, "title - metaDescription", 3, "Analysis unavailable", TRUE)

AnalysisOf(tab, answer) ==
  CASE answer.kind = "json" -> ParsedAnalysis(tab, answer.priorityScore)
    [] answer.kind = "text" -> UnparsedAnalysis(tab)
    [] OTHER -> DegradedAnalysis(tab)

\* PerTabRejects when the .catch is missing
PerTabRejectsWithoutCatch(tab, answer) ==
  tab.json = "null" \/ answer.kind = "requestFailed"

\* the promise mapped from a tab rejects: the prompt reads tab.title of null
\* and the .catch handler then reads tab.id of null
PerTabRejects(tab, answer) == tab.json = "null"

\* AllSettled resolving on the first record
AnySettled(st) == \E i \in DOMAIN st : st[i].state = "settled"

\* Promise.all resolves: every mapped promise is fulfilled
AllSettled(st) == \A i \in DOMAIN st : st[i].state = "settled"

\* an entry of the call log; tab 0 is the clustering call
Event(op, tab) == [op |-> op, tab |-> tab]

\* the object analyzeTabs returns
Result(summ, cl) ==
  LET noError(a) == ~a.error
      hasError(a) == a.error
  IN [returned |-> TRUE, summaries |-> FilterSeq(summ, noError), clusters |-> cl,
      processed |-> Len(summ), errors |-> Len(FilterSeq(summ, hasError))]

\* what clusterAndSortTabs makes of the provider's answer to its request
ClusteringResult(svc, kind, parsed, summ) ==
  CASE kind = "requestFailed" -> CatchResult(svc, summ)
    [] kind = "unparseable" -> UnparseableResult(svc, summ)
    [] kind = "nonArray" -> ValidateAndSortClusters(svc, NonArray, summ)
    [] OTHER -> IF ValidateThrows(parsed) THEN CatchResult(svc, summ)
                ELSE ValidateAndSortClusters(svc, parsed, summ)

\* what the provider answers the clustering request with
ClusteringAnswers ==
  {[kind |-> k, parsed |-> NonArray] : k \in {"requestFailed", "unparseable", "nonArray"}}
  \cup {[kind |-> "array", parsed |-> a] : a \in ReplyArrays}

\* clusterAndSortTabs(summaries) up to its first await
ClusteringStarts(summ, log) ==
  IF Len(summ) < 2
  THEN /\ pc' = "done"
       /\ clusters' = <<AllTabsCluster(summ)>>
       /\ results' = Result(summ, <<AllTabsCluster(summ)>>)
       /\ reply' = [kind |-> "fewTabs", parsed |-> NonArray]
       /\ calls' = log
  ELSE /\ pc' = "clustering"
       /\ calls' = Append(log, Event("fetch", 0))
       /\ UNCHANGED <<clusters, results, reply>>

\* analyzeTabs(tabs) up to its first await: every per-tab request is sent
AnalyzeTabsCalled ==
  /\ pc = "start"
  /\ LET st == [i \in DOMAIN inputTabs |->
                  [state |-> IF PerTabRejects(inputTabs[i], NoResponse)
                             THEN "rejected" ELSE "pending",
                   answer |-> NoResponse]]
         sent(i) == st[i].state = "pending"
         fetch(i) == Event("fetch", i)
         log == MapSeq(FilterSeq([i \in DOMAIN inputTabs |-> i], sent), fetch)
     IN /\ status' = st
        /\ tabSummaries' = [i \in DOMAIN inputTabs |-> NoSummary]
        /\ IF \E i \in DOMAIN st : st[i].state = "rejected"
           THEN /\ pc' = "threw"
                /\ calls' = log
                /\ UNCHANGED <<clusters, results, reply>>
           ELSE IF AllSettled(st)
           THEN ClusteringStarts(<<>>, log)
           ELSE /\ pc' = "analyzing"
                /\ calls' = log
                /\ UNCHANGED <<clusters, results, reply>>
  /\ UNCHANGED <<service, apiKey, revalidated, tabData, response, analysis,
                 inputTabs, serverVars, extensionVars>>

\* the provider's answer to the call of tab i arrives (or the call fails)
TabAnswered(i) ==
  /\ pc = "analyzing"
  /\ status[i].state = "pending"
  /\ \E answer \in AnalysisAnswers :
       IF PerTabRejects(inputTabs[i], answer)
       THEN /\ pc' = "threw"
            /\ status' = [status EXCEPT ![i] = [state |-> "rejected", answer |-> answer]]
            /\ calls' = Append(calls, Event("rejected", i))
            /\ UNCHANGED <<tabSummaries, clusters, results, reply>>
       ELSE LET st == [status EXCEPT ![i] = [state |-> "settled", answer |-> answer]]
                summ == [tabSummaries EXCEPT ![i] = AnalysisOf(inputTabs[i], answer)]
                log == Append(calls, Event("settled", i))
            IN /\ status' = st
               /\ tabSummaries' = summ
               /\ IF AllSettled(st)
                  THEN ClusteringStarts(summ, log)
                  ELSE /\ pc' = "analyzing"
                       /\ calls' = log
                       /\ UNCHANGED <<clusters, results, reply>>
  /\ UNCHANGED <<service, apiKey, revalidated, tabData, response, analysis,
                 inputTabs, serverVars, extensionVars>>

\* the provider never answers the call of tab i: fetch has no timeout
TabCallDropped(i) ==
  /\ pc = "analyzing"
  /\ status[i].state = "pending"
  /\ status' = [status EXCEPT ![i].state = "dropped"]
  /\ UNCHANGED <<service, apiKey, tabSummaries, reply, clusters, calls,
                 revalidated, tabData, response, analysis, pc, inputTabs,
                 results, serverVars, extensionVars>>

\* the provider's answer to the clustering request arrives (or the call fails)
ClusterAnswered ==
  /\ pc = "clustering"
  /\ reply.kind = "none"
  /\ \E answer \in ClusteringAnswers :
       LET cl == ClusteringResult(service, answer.kind, answer.parsed, tabSummaries)
       IN /\ reply' = answer
          /\ clusters' = cl
          /\ results' = Result(tabSummaries, cl)
  /\ calls' = Append(calls, Event("settled", 0))
  /\ pc' = "done"
  /\ UNCHANGED <<service, apiKey, tabSummaries, revalidated, tabData, response,
                 analysis, inputTabs, status, serverVars, extensionVars>>

\* the provider never answers the clustering request
ClusterCallDropped ==
  /\ pc = "clustering"
  /\ reply.kind = "none"
  /\ reply' = [kind |-> "dropped", parsed |-> NonArray]
  /\ UNCHANGED <<service, apiKey, tabSummaries, clusters, calls, revalidated,
                 tabData, response, analysis, pc, analyzeVars, serverVars, extensionVars>>

InitAnalyze ==
  /\ service = "GroqService"
  /\ apiKey = TRUE
  /\ inputTabs \in InputBatches
  /\ status = <<>>
  /\ results = NoResult
  /\ tabSummaries = <<>>
  /\ reply = NoReply
  /\ clusters = <<>>
  /\ calls = <<>>
  /\ revalidated = <<>>
  /\ tabData = NoTab
  /\ response = NoResponse
  /\ analysis = NoAnalysis
  /\ pc = "start"
  /\ NoRequest
  /\ NoExtension

NextAnalyze ==
  \/ AnalyzeTabsCalled
  \/ \E i \in DOMAIN inputTabs : TabAnswered(i)
  \/ \E i \in DOMAIN inputTabs : TabCallDropped(i)
  \/ ClusterAnswered
  \/ ClusterCallDropped

SpecAnalyze == InitAnalyze /\ [][NextAnalyze]_vars

(***************************************************************************)
(* POST /api/analyze: authenticateToken, the rate limiter (backend/server.js *)
(* only) and the handler.  Two handlers exist: the one of backend/server.js *)
(* ("server") and the one of the second server file ("pool"), which        *)
(* queries the pool itself.                                                *)
(***************************************************************************)
\* the usageLimit of the plans: free (the column default), pro, business
FreeLimit == 25
ProLimit == 1000
Unlimited == -1

Servers == {"server", "pool"}

\* the Authorization header: none, a token jwt.verify refuses, a good one
Tokens == {"none", "invalid", "valid"}

\* authenticateToken answers 401 or 403 instead of calling next()
TokenRejected(token) == token # "valid"

\* a rejection of groqService.analyzeTabs never reaching the catch
PropagatesNever(outcome) == FALSE

\* the awaited groqService.analyzeTabs(tabs) throws into the handler's catch
Propagates(outcome) == outcome = "threw"

\* x || d on a number
OrDefault(x, d) == IF x = 0 THEN d ELSE x

\* req.body.tabs: absent, something that is no array, or an array of n tabs
Bodies ==
  {NoBody, [kind |-> "notArray", tabs |-> 0]}
  \cup {[kind |-> "array", tabs |-> n] : n \in 0..MaxInputs}

\* the rows the users table can hold for the caller, NoUser when it has none
UserRows ==
  {NoUser}
  \cup {[found |-> TRUE, usageThisMonth |-> u, usageLimit |-> l] :
          u \in {0, FreeLimit - 1, FreeLimit, FreeLimit + 1, ProLimit - 1, ProLimit},
          l \in {FreeLimit, ProLimit, Unlimited}}

\* the first check of the handler answers 400
BodyRejected(server, body) ==
  \/ body.kind # "array"
  \/ server = "pool" /\ body.tabs = 0

\* the usage and the limit the handler compares
UsageRead(server, row) ==
  IF server = "pool" THEN OrDefault(row.usageThisMonth, 0) ELSE row.usageThisMonth

LimitRead(server, row) ==
  IF server = "pool" THEN OrDefault(row.usageLimit, FreeLimit) ELSE row.usageLimit

\* QuotaExceeded letting the last unit of the quota through twice
QuotaExceededStrict(server, row) ==
  IF server = "pool"
  THEN LimitRead(server, row) # Unlimited /\ UsageRead(server, row) > LimitRead(server, row)
  ELSE UsageRead(server, row) > LimitRead(server, row)

\* the condition under which the handler answers 429
QuotaExceeded(server, row) ==
  IF server = "pool"
  THEN LimitRead(server, row) # Unlimited /\ UsageRead(server, row) >= LimitRead(server, row)
  ELSE UsageRead(server, row) >= LimitRead(server, row)

\* what the handler adds to usageThisMonth
UsageIncrement(server, body) == IF server = "pool" THEN 1 ELSE body.tabs

\* res.status(code).json({error, ...}): the request is answered
Respond(code, error, current, limit) ==
  /\ res' = [status |-> code, error |-> error, current |-> current, limit |-> limit]
  /\ pc' = "responded"

ServerUnchanged ==
  UNCHANGED <<service, apiKey, tabSummaries, reply, clusters, revalidated,
              tabData, response, analysis, analyzeVars, extensionVars>>

\* authenticateToken: 401 without a token, 403 with one that does not verify
TokenChecked ==
  /\ pc = "arrived"
  /\ IF TokenRejected(req.token)
     THEN IF req.token = "none"
          THEN Respond(401, "Access token required", 0, 0)
          ELSE Respond(403, "Invalid or expired token", 0, 0)
     ELSE /\ pc' = IF req.server = "server" THEN "limiting" ELSE "start"
          /\ UNCHANGED res
  /\ UNCHANGED <<req, user, calls>>
  /\ ServerUnchanged

\* the limiter of backend/server.js: the eleventh request of a window is
\* answered 429 by express-rate-limit
LimiterChecked ==
  /\ pc = "limiting"
  /\ \E limited \in BOOLEAN :
       IF limited
       THEN Respond(429, "Too many requests", 0, 0)
       ELSE /\ pc' = "start"
            /\ UNCHANGED res
  /\ UNCHANGED <<req, user, calls>>
  /\ ServerUnchanged

\* the handler runs up to its first await
RequestReceived ==
  /\ pc = "start"
  /\ IF BodyRejected(req.server, req.body)
     THEN /\ Respond(400, IF req.server = "pool" THEN "No tabs provided"
                          ELSE "Invalid tabs data", 0, 0)
          /\ UNCHANGED calls
     ELSE /\ pc' = "readingUser"
          /\ calls' = <<"getUserById">>
          /\ UNCHANGED res
  /\ UNCHANGED <<req, user>>
  /\ ServerUnchanged

\* the user row arrives (or the query fails): the quota check
UserRead ==
  /\ pc = "readingUser"
  /\ \E outcome \in {"row", "error"} :
       IF outcome = "error"
       THEN /\ Respond(500, "Analysis failed", 0, 0)
            /\ UNCHANGED <<req, calls>>
       ELSE IF ~user.found
       THEN /\ IF req.server = "pool"
               THEN Respond(404, "User not found", 0, 0)
               ELSE Respond(500, "Analysis failed", 0, 0)
            /\ UNCHANGED <<req, calls>>
       ELSE /\ req' = [req EXCEPT !.user = user]
            /\ IF QuotaExceeded(req.server, user)
               THEN /\ Respond(429, "Monthly usage limit reached",
                               UsageRead(req.server, user), LimitRead(req.server, user))
                    /\ UNCHANGED calls
               ELSE /\ pc' = "analyzingTabs"
                    /\ calls' = Append(calls, "analyzeTabs")
                    /\ UNCHANGED res
  /\ UNCHANGED user
  /\ ServerUnchanged

\* groqService.analyzeTabs(tabs) returns or throws
AnalyzeTabsSettled ==
  /\ pc = "analyzingTabs"
  /\ \E outcome \in {"returned", "threw"} :
       /\ req' = [req EXCEPT !.results = outcome]
       /\ IF Propagates(outcome)
          THEN /\ Respond(500, "Analysis failed", 0, 0)
               /\ UNCHANGED calls
          ELSE /\ pc' = "updatingUsage"
               /\ calls' = Append(calls, "incrementUsage")
               /\ UNCHANGED res
  /\ UNCHANGED user
  /\ ServerUnchanged

\* the usage is incremented and logged (or one of the two queries fails)
UsageUpdated ==
  /\ pc = "updatingUsage"
  /\ \E outcome \in {"ok", "incrementFailed", "logFailed"} :
       /\ user' = IF outcome = "incrementFailed" THEN user
                  ELSE [user EXCEPT !.usageThisMonth =
                          @ + UsageIncrement(req.server, req.body)]
       /\ calls' = IF outcome = "incrementFailed" THEN calls
                   ELSE Append(calls, "logUsage")
       /\ IF outcome = "ok"
          THEN Respond(200, "",
                       UsageRead(req.server, req.user)
                         + UsageIncrement(req.server, req.body),
                       LimitRead(req.server, req.user))
          ELSE Respond(500, "Analysis failed", 0, 0)
  /\ UNCHANGED req
  /\ ServerUnchanged

InitServer ==
  /\ user \in UserRows
  /\ req \in {[server |-> sv, token |-> t, body |-> b, user |-> NoUser,
                arrival |-> user, results |-> "none"] :
                sv \in Servers, t \in Tokens, b \in Bodies}
  /\ res = NoRes
  /\ calls = <<>>
  /\ pc = "arrived"
  /\ service = "GroqService"
  /\ apiKey = TRUE
  /\ tabSummaries = <<>>
  /\ reply = NoReply
  /\ clusters = <<>>
  /\ revalidated = <<>>
  /\ tabData = NoTab
  /\ response = NoResponse
  /\ analysis = NoAnalysis
  /\ NoAnalyzeTabs
  /\ NoExtension

NextServer ==
  \/ TokenChecked
  \/ LimiterChecked
  \/ RequestReceived
  \/ UserRead
  \/ AnalyzeTabsSettled
  \/ UsageUpdated

SpecServer == InitServer /\ [][NextServer]_vars

(***************************************************************************)
(* The browser extension: TabManager in the background page, the popups    *)
(* that run PopupManager.analyzeTabs, browser.storage.local and the tab    *)
(* strip of the window.  A tab is its id; tabManager.tabSummaries is the   *)
(* Map as a function from ids; summariesFrom and clustersFrom record the   *)
(* popup whose batch a stored value was taken from.                        *)
(***************************************************************************)
Popups == {"p1", "p2"}

\* the tabs open when the popups are used
OpenTabs == <<1, 2, 3>>

\* the tabs with a chrome://, about: or moz-extension:// url
InternalTabs == {4}

IsWebTab(id) == id \notin InternalTabs

\* the array getAllTabs resolves with
GetAllTabs(window) == FilterSeq(window, IsWebTab)

\* extractAllTabs never returning early
ExtractionNeverRefused(manager) == FALSE

\* if (this.isAnalyzing) return []
ExtractionRefused(manager) == manager.isAnalyzing

\* the end of extractAllTabs: this.tabs is rebuilt, the flag cleared
ExtractionFinished(manager, extracted) ==
  [manager EXCEPT !.tabs = extracted, !.isAnalyzing = FALSE]

\* StoreResults leaving this.clusters as it was
StoreSummariesOnly(manager, batch, summaries, cl) ==
  [manager EXCEPT !.tabSummaries = TabMap(summaries), !.summariesFrom = batch]

\* the two assignments of storeResults
StoreResults(manager, batch, summaries, cl) ==
  [manager EXCEPT !.tabSummaries = TabMap(summaries), !.summariesFrom = batch,
                  !.clusters = cl, !.clustersFrom = batch]

\* browser.storage.local.set({tabSummaries, clusters, ...})
StorageSet(batch, summaries, cl) ==
  [tabSummaries |-> summaries, clusters |-> cl,
   summariesFrom |-> batch, clustersFrom |-> batch]

\* the tabs.onRemoved listener
OnRemoved(manager, tabId) ==
  LET others(id) == id # tabId
  IN [manager EXCEPT
        !.tabs = FilterSeq(@, others),
        !.tabSummaries = [id \in DOMAIN @ \ {tabId} |-> @[id]]]

\* the entries getSortedResults pushes for one cluster
SortedResultsOf(cluster, summaries) ==
  LET known(id) == id \in DOMAIN summaries
      entry(id) == [id |-> id, priorityScore |-> summaries[id].priorityScore,
                    clusterName |-> cluster.name,
                    clusterPriority |-> cluster.clusterPriority]
  IN MapSeq(FilterSeq(cluster.tabIds, known), entry)

RECURSIVE FlatResults(_, _)
FlatResults(cs, summaries) ==
  IF cs = <<>> THEN <<>>
  ELSE SortedResultsOf(Head(cs), summaries) \o FlatResults(Tail(cs), summaries)

\* getSortedResults(): what the get-sorted-results message is answered with
GetSortedResults(manager) == FlatResults(manager.clusters, manager.tabSummaries)

\* browser.tabs.move(tabId, {index}) on a tab of the window
MoveTab(window, tabId, index) ==
  LET others(id) == id # tabId
      rest == FilterSeq(window, others)
      at == Min(index, Len(rest))
  IN SubSeq(rest, 1, at) \o <<tabId>> \o SubSeq(rest, at + 1, Len(rest))

\* the priorityScore the backend gives the tabs 1, 2, 3 (and 4)
ScoreProfiles == {<<1, 3, 2, 2>>, <<2, 2, 2, 2>>}

\* what the provider answers the backend's clustering request with
ExtensionClusterings ==
  {[kind |-> "array", parsed |-> AsArray(<<Candidate(StrWork, <<1, 2>>, TRUE)>>)],
   [kind |-> "requestFailed", parsed |-> NonArray]}

\* the analyses the backend makes of the extracted tabs
AnalysesOf(extracted, scores) ==
  [k \in DOMAIN extracted |->
     [id |-> extracted[k], title |-> "A", url |-> UrlNews,
      priorityScore |-> scores[extracted[k]], error |-> FALSE]]

\* result.results of a 200 answer of /api/analyze
BackendResults(extracted) ==
  {LET summ == AnalysesOf(extracted, scores)
   IN Result(summ, IF Len(summ) < 2 THEN <<AllTabsCluster(summ)>>
                   ELSE ClusteringResult("GroqService", a.kind, a.parsed, summ)) :
     scores \in ScoreProfiles, a \in ExtensionClusterings}

NewPopup ==
  [pc |-> "idle", open |-> TRUE, refused |-> FALSE, tabs |-> <<>>,
   tabData |-> <<>>, result |-> NoResult]

ExtensionUnchanged ==
  UNCHANGED <<service, apiKey, tabSummaries, reply, clusters, calls, revalidated,
              tabData, response, analysis, pc, analyzeVars, serverVars>>

\* what the popup does with the answer to extract-tabs: an empty list
\* throws 'No tabs to analyze', else the backend is asked
AfterExtraction(pop, extracted) ==
  IF ~pop.open THEN [pop EXCEPT !.pc = "closed", !.tabs = <<>>, !.tabData = extracted]
  ELSE IF Len(extracted) = 0
  THEN [pop EXCEPT !.pc = "failed", !.tabs = <<>>, !.tabData = extracted]
  ELSE [pop EXCEPT !.pc = "requesting", !.tabs = <<>>, !.tabData = extracted]

\* the popup sends extract-tabs and extractAllTabs runs to its first await
ExtractTabsReceived(p) ==
  /\ popup[p].pc = "idle"
  /\ IF ExtractionRefused(tabManager)
     THEN /\ popup' = [popup EXCEPT ![p] = [AfterExtraction(@, <<>>) EXCEPT !.refused = TRUE]]
          /\ UNCHANGED tabManager
     ELSE /\ tabManager' = [tabManager EXCEPT !.isAnalyzing = TRUE]
          /\ popup' = [popup EXCEPT ![p].pc = "querying"]
  /\ UNCHANGED <<strip, storage, organizer, removed>>
  /\ ExtensionUnchanged

\* getAllTabs resolves; with no tab the loop is skipped and the run returns
TabsQueried(p) ==
  /\ popup[p].pc = "querying"
  /\ LET tabs == GetAllTabs(strip)
     IN IF tabs = <<>>
        THEN /\ tabManager' = ExtractionFinished(tabManager, <<>>)
             /\ popup' = [popup EXCEPT ![p] = AfterExtraction(@, <<>>)]
        ELSE /\ popup' = [popup EXCEPT ![p].pc = "extracting", ![p].tabs = tabs]
             /\ UNCHANGED tabManager
  /\ UNCHANGED <<strip, storage, organizer, removed>>
  /\ ExtensionUnchanged

\* one extractTabContent settles (a closed tab gives the fallback content);
\* after the last one the run returns
ContentExtracted(p) ==
  /\ popup[p].pc = "extracting"
  /\ LET extracted == Append(popup[p].tabData, Head(popup[p].tabs))
     IN IF Len(popup[p].tabs) = 1
        THEN /\ tabManager' = ExtractionFinished(tabManager, extracted)
             /\ popup' = [popup EXCEPT ![p] = AfterExtraction(@, extracted)]
        ELSE /\ popup' = [popup EXCEPT ![p].tabs = Tail(@), ![p].tabData = extracted]
             /\ UNCHANGED tabManager
  /\ UNCHANGED <<strip, storage, organizer, removed>>
  /\ ExtensionUnchanged

\* makeRequest('/api/analyze') settles: an error, or the results, which
\* backendAPI.analyzeTabs then writes to browser.storage.local
BackendAnswered(p) ==
  /\ popup[p].pc = "requesting"
  /\ \/ popup' = [popup EXCEPT ![p].pc = "failed"]
     \/ \E r \in BackendResults(popup[p].tabData) :
          popup' = [popup EXCEPT ![p].pc = "saving", ![p].result = r]
  /\ UNCHANGED <<strip, tabManager, storage, organizer, removed>>
  /\ ExtensionUnchanged

\* the storage write of backendAPI.analyzeTabs is done; the popup sends
\* store-results
ResultsSaved(p) ==
  /\ popup[p].pc = "saving"
  /\ storage' = StorageSet(p, popup[p].result.summaries, popup[p].result.clusters)
  /\ popup' = [popup EXCEPT ![p].pc = "storing"]
  /\ UNCHANGED <<strip, tabManager, organizer, removed>>
  /\ ExtensionUnchanged

\* storeResults runs to its await
StoreResultsReceived(p) ==
  /\ popup[p].pc = "storing"
  /\ tabManager' = StoreResults(tabManager, p, popup[p].result.summaries,
                                popup[p].result.clusters)
  /\ popup' = [popup EXCEPT ![p].pc = "persisting"]
  /\ UNCHANGED <<strip, storage, organizer, removed>>
  /\ ExtensionUnchanged

\* the storage write of storeResults is done
ResultsPersisted(p) ==
  /\ popup[p].pc = "persisting"
  /\ storage' = StorageSet(p, popup[p].result.summaries, popup[p].result.clusters)
  /\ popup' = [popup EXCEPT ![p].pc = "done"]
  /\ UNCHANGED <<strip, tabManager, organizer, removed>>
  /\ ExtensionUnchanged

\* the popup is closed while its analysis runs: the extraction goes on in
\* the background page, a pending request is never followed up, a storage
\* write already issued may still be done
PopupClosed(p) ==
  /\ popup[p].open
  /\ popup[p].pc \in {"querying", "extracting", "requesting", "saving"}
  /\ popup' = [popup EXCEPT
                 ![p].open = FALSE,
                 ![p].pc = IF @ \in {"requesting", "saving"} THEN "closed" ELSE @]
  /\ \/ UNCHANGED storage
     \/ /\ popup[p].pc = "saving"
        /\ storage' = StorageSet(p, popup[p].result.summaries, popup[p].result.clusters)
  /\ UNCHANGED <<strip, tabManager, organizer, removed>>
  /\ ExtensionUnchanged

\* the user closes a tab and tabs.onRemoved fires
TabRemoved(tabId) ==
  /\ tabId \in Range(strip)
  /\ LET others(id) == id # tabId
     IN strip' = FilterSeq(strip, others)
  /\ tabManager' = OnRemoved(tabManager, tabId)
  /\ removed' = removed \cup {tabId}
  /\ UNCHANGED <<storage, popup, organizer>>
  /\ ExtensionUnchanged

InitExtension ==
  /\ strip = OpenTabs
  /\ tabManager = NewTabManager
  /\ storage = EmptyStorage
  /\ popup = [p \in Popups |-> NewPopup]
  /\ organizer = NoOrganizer
  /\ removed = {}
  /\ service = "GroqService"
  /\ apiKey = TRUE
  /\ tabSummaries = <<>>
  /\ reply = NoReply
  /\ clusters = <<>>
  /\ calls = <<>>
  /\ revalidated = <<>>
  /\ tabData = NoTab
  /\ response = NoResponse
  /\ analysis = NoAnalysis
  /\ pc = "start"
  /\ NoAnalyzeTabs
  /\ NoRequest

NextExtension ==
  \/ \E p \in Popups : ExtractTabsReceived(p)
  \/ \E p \in Popups : TabsQueried(p)
  \/ \E p \in Popups : ContentExtracted(p)
  \/ \E p \in Popups : BackendAnswered(p)
  \/ \E p \in Popups : ResultsSaved(p)
  \/ \E p \in Popups : StoreResultsReceived(p)
  \/ \E p \in Popups : ResultsPersisted(p)
  \/ \E p \in Popups : PopupClosed(p)
  \/ \E tabId \in Range(OpenTabs) : TabRemoved(tabId)

SpecExtension == InitExtension /\ [][NextExtension]_vars

(***************************************************************************)
(* organizeTabsIntoGroups on a window whose tabs the user has reordered    *)
(* since the analysis that TabManager holds; tab 4 is an about: page.      *)
(***************************************************************************)
\* the orders the tabs of S can stand in
StripsOf(S) == {s \in [1..Cardinality(S) -> S] : Range(s) = S}

RECURSIVE ClusteredTabIds(_)
ClusteredTabIds(cs) ==
  IF cs = <<>> THEN <<>> ELSE Head(cs).tabIds \o ClusteredTabIds(Tail(cs))

\* the tab ids the two loops reach a move with: tabIndexMap.has(tabId)
MoveQueue(cs, allTabs) ==
  LET has(id) == id \in Range(allTabs)
  IN FilterSeq(ClusteredTabIds(cs), has)

\* browser.tabs.move rejects: the tab is gone
MoveRejects(window, tabId) == tabId \notin Range(window)

\* organize-tabs arrives: getAllTabs is called
OrganizeTabsReceived ==
  /\ organizer.pc = "idle"
  /\ organizer' = [organizer EXCEPT !.pc = "querying"]
  /\ UNCHANGED <<strip, tabManager, storage, popup, removed>>
  /\ ExtensionUnchanged

\* getAllTabs resolves; the loops run to the first move, or to the end
OrganizeQueried ==
  /\ organizer.pc = "querying"
  /\ LET queue == MoveQueue(tabManager.clusters, GetAllTabs(strip))
     IN organizer' = [organizer EXCEPT
                        !.pc = IF queue = <<>> THEN "done" ELSE "moving",
                        !.queue = queue]
  /\ UNCHANGED <<strip, tabManager, storage, popup, removed>>
  /\ ExtensionUnchanged

\* one browser.tabs.move settles: done (targetIndex++), or rejected because
\* the tab is gone or the browser refuses to move tabs right now
TabMoveSettled ==
  /\ organizer.pc = "moving"
  /\ LET tabId == Head(organizer.queue)
         next == IF Len(organizer.queue) = 1 THEN "done" ELSE "moving"
     IN \E refused \in BOOLEAN :
          IF MoveRejects(strip, tabId) \/ refused
          THEN /\ organizer' = [organizer EXCEPT !.pc = next, !.queue = Tail(@),
                                                 !.failed = TRUE]
               /\ UNCHANGED strip
          ELSE /\ strip' = MoveTab(strip, tabId, organizer.targetIndex)
               /\ organizer' = [organizer EXCEPT !.pc = next, !.queue = Tail(@),
                                                 !.targetIndex = @ + 1,
                                                 !.moved = Append(@, tabId)]
  /\ UNCHANGED <<tabManager, storage, popup, removed>>
  /\ ExtensionUnchanged

InitOrganize ==
  /\ strip \in StripsOf(Range(OpenTabs) \cup InternalTabs)
  /\ \E r \in BackendResults(OpenTabs) :
       /\ tabManager = StoreResults(NewTabManager, "p1", r.summaries, r.clusters)
       /\ storage = StorageSet("p1", r.summaries, r.clusters)
       /\ popup = [p \in Popups |->
                     IF p = "p1"
                     THEN [NewPopup EXCEPT !.pc = "done", !.tabData = OpenTabs,
                                           !.result = r]
                     ELSE NewPopup]
  /\ organizer = NoOrganizer
  /\ removed = {}
  /\ service = "GroqService"
  /\ apiKey = TRUE
  /\ tabSummaries = <<>>
  /\ reply = NoReply
  /\ clusters = <<>>
  /\ calls = <<>>
  /\ revalidated = <<>>
  /\ tabData = NoTab
  /\ response = NoResponse
  /\ analysis = NoAnalysis
  /\ pc = "start"
  /\ NoAnalyzeTabs
  /\ NoRequest

NextOrganize ==
  \/ OrganizeTabsReceived
  \/ OrganizeQueried
  \/ TabMoveSettled
  \/ \E tabId \in Range(OpenTabs) \cup InternalTabs : TabRemoved(tabId)

SpecOrganize == InitOrganize /\ [][NextOrganize]_vars

(***************************************************************************)
(* Properties                                                              *)
(***************************************************************************)
BatchIds == {tabSummaries[i].id : i \in DOMAIN tabSummaries}

\* the places (cluster, position) where id stands in cs
PlacesOf(cs, id) ==
  UNION {{<<c, k>> : k \in {j \in DOMAIN cs[c].tabIds : cs[c].tabIds[j] = id}} :
           c \in DOMAIN cs}

ClusteredIds(cs) == UNION {Range(cs[c].tabIds) : c \in DOMAIN cs}

Partitions(cs) ==
  /\ ClusteredIds(cs) = BatchIds
  /\ \A id \in BatchIds : Cardinality(PlacesOf(cs, id)) = 1

TabOf(id) == TabMap(tabSummaries)[id]

ScoresOf(c) == [k \in DOMAIN c.tabIds |-> TabOf(c.tabIds[k]).priorityScore]

UsedFallback == "fallbackClustering" \in Range(calls)

\* C1: the clusters validateAndSortClusters returns for an array partition
\* the batch: their tabIds together are exactly the analysis ids, each once.
C1_ResultPartitionsBatch ==
  (pc = "done" /\ reply.kind = "candidate") => Partitions(clusters)

\* two named candidates both claim tab 1 and none claims tab 2: the first
\* keeps tab 1, the second is dropped, tab 2 is in the cluster "Other"
C1_Witness ==
  /\ pc = "done"
  /\ reply.kind = "candidate"
  /\ Len(tabSummaries) = 2
  /\ Len(reply.parsed.items) = 2
  /\ reply.parsed.items[1].tabIds = <<1>>
  /\ reply.parsed.items[1].name # <<>>
  /\ reply.parsed.items[2].tabIds = <<1>>
  /\ reply.parsed.items[2].name # <<>>
  /\ Len(clusters) = 2
  /\ clusters[1].tabIds = <<1>>
  /\ clusters[2].name = StrOther
  /\ clusters[2].tabIds = <<2>>

\* C2: after domain fallback every tab with an unparseable url is in a
\* cluster named "Other".
C2_UnparseableUrlInOther ==
  (pc = "done" /\ UsedFallback) =>
    \A i \in DOMAIN tabSummaries :
      UrlThrows(tabSummaries[i]) =>
        \E c \in DOMAIN clusters :
          /\ clusters[c].name = StrOther
          /\ tabSummaries[i].id \in Range(clusters[c].tabIds)

ClustersSorted(cs) ==
  \A c \in 1..(Len(cs) - 1) : cs[c].clusterPriority <= cs[c + 1].clusterPriority

\* C3: the clusters clusterAndSortTabs returns are non-decreasing in
\* clusterPriority, whatever the provider did.
C3_ClustersSortedByPriority == pc = "done" => ClustersSorted(clusters)

\* the provider's cluster was validated and the "Other" cluster, pushed
\* after it, was sorted in front of it
C3_Witness ==
  /\ pc = "done"
  /\ reply.kind = "array"
  /\ Len(clusters) = 2
  /\ clusters[1].name = StrOther
  /\ clusters[2].name = StrWork
  /\ clusters[1].clusterPriority < clusters[2].clusterPriority

TabIdsSorted(c) ==
  \A k \in 1..(Len(c.tabIds) - 1) :
    LET a == TabOf(c.tabIds[k])
        b == TabOf(c.tabIds[k + 1])
    IN \/ a.priorityScore < b.priorityScore
       \/ /\ a.priorityScore = b.priorityScore
          /\ TitleRank(a.title) <= TitleRank(b.title)

\* C4: in every returned cluster the tabIds are non-decreasing by
\* priorityScore and, for equal scores, by title.
C4_TabIdsSortedByScoreThenTitle ==
  pc = "done" => \A c \in DOMAIN clusters : TabIdsSorted(clusters[c])

\* C5: every returned cluster has clusterPriority equal to the mean of its
\* members' priorityScores rounded to one decimal place.
C5_PriorityIsRoundedMean ==
  pc = "done" =>
    \A c \in DOMAIN clusters :
      LET n == Len(clusters[c].tabIds)
          sum == SumSeq(ScoresOf(clusters[c]))
      IN n > 0 =>
           clusters[c].clusterPriority * 10 = Scale * ((20 * sum + n) \div (2 * n))

\* C6: for two or more analyses, the clusters clusterAndSortTabs returns
\* have passed through validateAndSortClusters.
C6_ResultWasValidated ==
  (pc = "done" /\ Len(tabSummaries) >= 2) =>
    "validateAndSortClusters" \in Range(calls)

\* C7: validateAndSortClusters applied to its own output returns that output
\* unchanged.
C7_ValidationIdempotent ==
  (pc = "revalidated" /\ reply.kind = "array") => revalidated = clusters

\* C9: the priorityScore of an analysis parsed from the provider's answer is
\* in 1..5: a number below 1 gives 1, above 5 gives 5, an integer in 1..5 is
\* kept, and a non-numeric or absent value gives 3.
C9_ScoreClampedToNearestBound ==
  (pc = "analyzed" /\ response.kind = "json") =>
    LET raw == response.priorityScore
    IN /\ analysis.priorityScore \in 1..5
       /\ (raw.type = "number" /\ raw.tenths < 10) => analysis.priorityScore = 1
       /\ (raw.type = "number" /\ raw.tenths > 50) => analysis.priorityScore = 5
       /\ (raw.type = "number" /\ raw.tenths \in {10, 20, 30, 40, 50}) =>
            analysis.priorityScore * 10 = raw.tenths
       /\ (raw.type \in {"null", "undefined", "boolean"}) => analysis.priorityScore = 3
       /\ (raw.type = "string" /\ raw.chars = StrHigh) => analysis.priorityScore = 3

\* C10: for fewer than two analyses clusterAndSortTabs returns one cluster
\* "All Tabs" holding all ids, its clusterPriority the tab's score (3 for an
\* empty batch), and the provider is not called.
C10_FewTabsGiveOneGenericCluster ==
  (pc = "done" /\ Len(tabSummaries) < 2) =>
    /\ Len(clusters) = 1
    /\ clusters[1].name = StrAllTabs
    /\ clusters[1].tabIds = [i \in DOMAIN tabSummaries |-> tabSummaries[i].id]
    /\ clusters[1].clusterPriority =
         Scale * (IF Len(tabSummaries) = 1 THEN tabSummaries[1].priorityScore ELSE 3)
    /\ "fetch" \notin Range(calls)

\* the candidate array names an id that no analysis of the batch has
NamesUnknownId(parsed) ==
  \E i \in DOMAIN parsed.items :
    /\ parsed.items[i].json = "object"
    /\ \E k \in DOMAIN parsed.items[i].tabIds :
         parsed.items[i].tabIds[k] \notin BatchIds

AllObjects(parsed) ==
  \A i \in DOMAIN parsed.items : parsed.items[i].json = "object"

\* C11: an array of cluster objects that names an id of no analysis is
\* validated without an error, and every id in every cluster returned is the
\* id of an analysis of the batch.
C11_UnknownIdsDroppedSilently ==
  (reply.kind = "candidate" /\ pc # "start") =>
    /\ (NamesUnknownId(reply.parsed) /\ AllObjects(reply.parsed)) => pc = "done"
    /\ pc = "done" => ClusteredIds(clusters) \subseteq BatchIds

\* a named cluster listing an unknown id before tab 2: the cluster comes out
\* with tab 2 alone and tab 1 goes to "Other"
C11_Witness ==
  /\ pc = "done"
  /\ reply.kind = "candidate"
  /\ Len(tabSummaries) = 2
  /\ Len(reply.parsed.items) = 1
  /\ reply.parsed.items[1].name = StrWork
  /\ reply.parsed.items[1].tabIds = <<UnknownId, 2>>
  /\ \E c \in DOMAIN clusters :
       clusters[c].name = StrWork /\ clusters[c].tabIds = <<2>>
  /\ \E c \in DOMAIN clusters :
       clusters[c].name = StrOther /\ clusters[c].tabIds = <<1>>

\* the labels of a host name, the text between its dots
RECURSIVE Labels(_)
Labels(host) ==
  IF Occurrences(host, <<".">>) = {} THEN <<host>>
  ELSE <<SplitFirst(host, ".")>> \o
       Labels(SubSeq(host, Len(SplitFirst(host, ".")) + 2, Len(host)))

\* the site name of a host: the label in front of its last label, a leading
\* "www." set aside
SiteName(host) ==
  LET labels == Labels(IF SubSeq(host, 1, 4) = StrWwwDot
                       THEN SubSeq(host, 5, Len(host)) ELSE host)
  IN IF Len(labels) >= 2 THEN labels[Len(labels) - 1] ELSE labels[1]

\* C12: domain fallback keys a tab by the site name of its host, not by its
\* subdomain: every tab with a parseable url is in the cluster named by the
\* capitalized site name (news.ycombinator.com in "Ycombinator").
C12_FallbackKeysBySiteName ==
  (pc = "done" /\ UsedFallback) =>
    \A i \in DOMAIN tabSummaries :
      ~UrlThrows(tabSummaries[i]) =>
        \E c \in DOMAIN clusters :
          /\ clusters[c].name = Capitalize(SiteName(tabSummaries[i].url.hostname))
          /\ tabSummaries[i].id \in Range(clusters[c].tabIds)

\* the raw tab record has an id and a url
WellFormed(tab) == tab.json = "object" /\ tab.id # 0 /\ tab.hasUrl

\* the per-tab calls are over and clusterAndSortTabs has been entered
PerTabCallsOver == pc \in {"clustering", "done"} /\ Len(status) = Len(inputTabs)

\* C13: whichever per-tab calls fail, each failing tab has a record with its
\* own id, priorityScore 3 and the error set, every other tab has the record
\* its own answer gives, and clustering runs on one record per input tab.
C13_FailingTabsYieldDegradedRecords ==
  PerTabCallsOver =>
    /\ Len(tabSummaries) = Len(inputTabs)
    /\ \A i \in DOMAIN inputTabs :
         LET answer == status[i].answer
             record == tabSummaries[i]
         IN /\ record.id = inputTabs[i].id
            /\ answer.kind = "requestFailed" =>
                 record.priorityScore = 3 /\ record.error
            /\ answer.kind = "json" =>
                 /\ record.priorityScore * 10 = answer.priorityScore.tenths
                 /\ ~record.error
            /\ answer.kind = "text" => record.priorityScore = 3 /\ ~record.error
    /\ pc = "done" => results.processed = Len(inputTabs)

\* the call of tab 1 failed and the call of tab 2 was answered with score 1:
\* two records went to clustering and a result came back
C13_Witness ==
  /\ pc = "done"
  /\ Len(inputTabs) = 2
  /\ status[1].answer.kind = "requestFailed"
  /\ status[2].answer.kind = "json"
  /\ tabSummaries[1].id = 1
  /\ tabSummaries[1].error
  /\ tabSummaries[2].id = 2
  /\ tabSummaries[2].priorityScore = 1
  /\ results.returned
  /\ results.processed = 2
  /\ Len(clusters) > 0

\* C14: an answer from which no JSON object can be parsed gives the same
\* degraded record as an unreachable provider: summary from title and
\* metaDescription, priorityScore 3, error set.
C14_UnparseableAnswerGivesDegradedRecord ==
  PerTabCallsOver =>
    \A i \in DOMAIN inputTabs :
      status[i].answer.kind = "text" =>
        /\ tabSummaries[i].summary = "title - metaDescription"
        /\ tabSummaries[i].priorityScore = 3
        /\ tabSummaries[i].error

\* C15: the summaries of the result hold one entry per input tab, degraded
\* ones included, so every tabId in the result's clusters has its entry.
C15_SummariesCoverEveryTab ==
  (pc = "done" /\ results.returned) =>
    /\ Len(results.summaries) = Len(inputTabs)
    /\ \A id \in ClusteredIds(results.clusters) :
         \E k \in DOMAIN results.summaries : results.summaries[k].id = id

\* C16: the clustering request is sent only after every per-tab analysis of
\* the batch has settled, in whatever order the answers arrive.
C16_ClusteringWaitsForAllAnalyses ==
  (Len(status) = Len(inputTabs)) =>
    \A k \in DOMAIN calls :
      calls[k] = Event("fetch", 0) =>
        \A i \in DOMAIN inputTabs :
          \E j \in 1..(k - 1) : calls[j] = Event("settled", i)

\* the answer for tab 2 came before the answer for tab 1, and only then was
\* the clustering request sent
C16_Witness ==
  /\ pc = "clustering"
  /\ Len(inputTabs) = 2
  /\ calls = <<Event("fetch", 1), Event("fetch", 2), Event("settled", 2),
               Event("settled", 1), Event("fetch", 0)>>

\* C17: analyzeTabs eventually returns even if the provider never answers a
\* call: every call has a bounded wait and is then handled as a failure.
\* So analyzeTabs is never left with no step to take, waiting on calls the
\* provider does not answer.
C17_NoCallWaitsForEver ==
  /\ ~(/\ pc = "analyzing"
       /\ \A i \in DOMAIN status : status[i].state \in {"settled", "dropped"})
  /\ ~(pc = "clustering" /\ reply.kind = "dropped")

\* C18: for well-formed tab records analyzeTabs never raises, whichever
\* provider calls fail: once every call sent has been answered it has
\* returned a result.
C18_ProviderFailuresNeverPropagate ==
  (Len(status) = Len(inputTabs) /\ \A i \in DOMAIN inputTabs : WellFormed(inputTabs[i])) =>
    /\ pc # "threw"
    /\ pc = "done" => results.returned /\ results.clusters = clusters
    /\ (AllSettled(status) /\ reply.kind \notin {"none", "dropped"}) => pc = "done"

\* both per-tab calls and the clustering call failed, and a result came back
C18_Witness ==
  /\ pc = "done"
  /\ Len(inputTabs) = 2
  /\ \A i \in DOMAIN inputTabs :
       WellFormed(inputTabs[i]) /\ status[i].answer.kind = "requestFailed"
  /\ reply.kind = "requestFailed"
  /\ results.returned
  /\ results.errors = 2
  /\ Len(results.clusters) > 0

\* C19: a raw tab record without an id or without a url is not analyzed and
\* not clustered as if it were valid, and the other tabs of the batch still
\* are.
C19_InvalidInputIsSetAside ==
  (Len(status) = Len(inputTabs)) =>
    /\ \A i \in DOMAIN inputTabs :
         ~WellFormed(inputTabs[i]) =>
           /\ Event("fetch", i) \notin Range(calls)
           /\ pc = "done" =>
                \A c \in DOMAIN clusters : inputTabs[i].id \notin Range(clusters[c].tabIds)
    /\ pc # "threw"

\* when the request arrived the caller had a row with a finite usageLimit
\* that the usage had reached
OverQuota ==
  /\ req.arrival.found
  /\ req.arrival.usageLimit # Unlimited
  /\ req.arrival.usageThisMonth >= req.arrival.usageLimit

\* C20: analyzeTabs is invoked only after the quota check has passed: a
\* request from a user with a finite usageLimit and usageThisMonth >=
\* usageLimit makes no provider call and is answered 429 "Monthly usage
\* limit reached".
C20_OverQuotaAnswered429 ==
  /\ "analyzeTabs" \in Range(calls) =>
       req.user.found /\ ~QuotaExceeded(req.server, req.user)
  /\ (pc = "responded" /\ OverQuota) =>
       /\ "analyzeTabs" \notin Range(calls)
       /\ res.status = 429
       /\ res.error = "Monthly usage limit reached"

\* C20 as amended: analyzeTabs is invoked only after the user row was read
\* and passed the quota check; a request that carries a tabs array the
\* handler accepts, and whose user row is read with a finite usageLimit and
\* usageThisMonth >= usageLimit, makes no provider call and is answered 429.
C20_OverQuotaWithTabsAnswered429 ==
  /\ "analyzeTabs" \in Range(calls) =>
       /\ req.user.found
       /\ ~QuotaExceeded(req.server, req.user)
       /\ calls[1] = "getUserById"
  /\ OverQuota => "analyzeTabs" \notin Range(calls)
  /\ (pc = "responded" /\ OverQuota /\ req.user.found) =>
       /\ res.status = 429
       /\ res.error = "Monthly usage limit reached"

\* a free-plan user who has used exactly the 25 analyses of the plan asks
\* for one tab: the row is read, nothing else is called, the answer is 429
C20_Witness ==
  /\ pc = "responded"
  /\ req.body.kind = "array"
  /\ req.body.tabs = 1
  /\ user.found
  /\ user.usageLimit = FreeLimit
  /\ user.usageThisMonth = FreeLimit
  /\ req.user = user
  /\ calls = <<"getUserById">>
  /\ res.status = 429

\* C21: the usage counter and the usage log change only after analyzeTabs
\* has returned: while it has not (it raised, or the request was rejected for
\* its token, its tabs or the quota), the users row is the one of the arrival
\* and neither incrementUsage nor logUsage has been called.
C21_UsageChangesOnlyAfterAnalysis ==
  req.results # "returned" =>
    /\ user = req.arrival
    /\ "incrementUsage" \notin Range(calls)
    /\ "logUsage" \notin Range(calls)

\* analyzeTabs raised for a user with quota left: answered 500, row untouched
C21_Witness ==
  /\ pc = "responded"
  /\ req.results = "threw"
  /\ res.status = 500
  /\ user.found
  /\ user.usageThisMonth = FreeLimit - 1
  /\ user = req.arrival
  /\ calls = <<"getUserById", "analyzeTabs">>

\* C22: a Business user (usageLimit -1) is never answered "Monthly usage
\* limit reached", whatever usageThisMonth is.
C22_BusinessNeverOverQuota ==
  (pc = "responded" /\ req.arrival.found /\ req.arrival.usageLimit = Unlimited) =>
    res.error # "Monthly usage limit reached"

\* C28: a user who arrives with usageThisMonth within a finite usageLimit
\* never ends with usageThisMonth above it.
C28_UsageStaysWithinLimit ==
  (/\ req.arrival.found
   /\ req.arrival.usageLimit # Unlimited
   /\ req.arrival.usageThisMonth <= req.arrival.usageLimit) =>
    user.usageThisMonth <= user.usageLimit

\* the candidates with a name and a tabIds array that list id
ClaimantsOf(parsed, id) ==
  {i \in DOMAIN parsed.items :
     HasNameAndTabIds(parsed.items[i]) /\ id \in Range(parsed.items[i].tabIds)}

\* C25: an id of the batch that several candidates with a name and a tabIds
\* array list is, in the output, in exactly one cluster, and that cluster
\* carries the name of the earliest of those candidates.
C25_FirstClaimWins ==
  (pc = "done" /\ reply.kind = "candidate") =>
    \A id \in BatchIds :
      LET claimants == ClaimantsOf(reply.parsed, id)
      IN claimants # {} =>
           LET first == CHOOSE i \in claimants : \A j \in claimants : i <= j
           IN /\ Cardinality(PlacesOf(clusters, id)) = 1
              /\ \A c \in DOMAIN clusters :
                   id \in Range(clusters[c].tabIds) =>
                     clusters[c].name = reply.parsed.items[first].name

\* "Topic" lists tab 1 before "Work" does: tab 1 is in "Topic" and "Work",
\* left without a tab, is not in the output
C25_Witness ==
  /\ pc = "done"
  /\ reply.kind = "candidate"
  /\ Len(tabSummaries) = 1
  /\ Len(reply.parsed.items) = 2
  /\ reply.parsed.items[1].name = StrTopic
  /\ reply.parsed.items[1].tabIds = <<1>>
  /\ reply.parsed.items[2].name = StrWork
  /\ reply.parsed.items[2].tabIds = <<1>>
  /\ Len(clusters) = 1
  /\ clusters[1].name = StrTopic
  /\ clusters[1].tabIds = <<1>>

\* the clusters of cs that are the synthesized "Other" / "Uncategorized tabs"
OtherClusters(cs) ==
  {c \in DOMAIN cs : cs[c].name = StrOther /\ cs[c].description = StrUncategorized}

\* C26: no cluster validateAndSortClusters returns has an empty tabIds or
\* lacks a name; a candidate object without a name or without a tabIds array
\* yields no cluster, and each tab of the batch it lists is, unless a
\* candidate with both claims it, in the "Other" / "Uncategorized tabs"
\* cluster.
C26_NoEmptyOrNamelessCluster ==
  (pc = "done" /\ reply.kind = "candidate") =>
    LET items == reply.parsed.items
        discarded == {i \in DOMAIN items : ~HasNameAndTabIds(items[i])}
    IN /\ \A c \in DOMAIN clusters :
            Len(clusters[c].tabIds) > 0 /\ clusters[c].name # <<>>
       /\ Cardinality(DOMAIN clusters \ OtherClusters(clusters))
            <= Cardinality(DOMAIN items \ discarded)
       /\ \A i \in discarded :
            \A id \in Range(items[i].tabIds) \cap BatchIds :
              ClaimantsOf(reply.parsed, id) = {} =>
                \E c \in OtherClusters(clusters) : id \in Range(clusters[c].tabIds)

\* a candidate without a name lists tab 1 and a named one lists an unknown
\* id: neither yields a cluster, tab 1 and tab 2 are in "Other"
C26_Witness ==
  /\ pc = "done"
  /\ reply.kind = "candidate"
  /\ Len(tabSummaries) = 2
  /\ Len(reply.parsed.items) = 2
  /\ reply.parsed.items[1].name = <<>>
  /\ reply.parsed.items[1].tabIds = <<1>>
  /\ reply.parsed.items[2].name = StrWork
  /\ reply.parsed.items[2].tabIds = <<UnknownId>>
  /\ Len(clusters) = 1
  /\ clusters[1].name = StrOther
  /\ clusters[1].description = StrUncategorized
  /\ Range(clusters[1].tabIds) = {1, 2}

\* C23: the list get-sorted-results is answered with has a non-decreasing
\* priorityScore from its first entry to its last.
C23_SortedResultsAscending ==
  LET list == GetSortedResults(tabManager)
  IN \A i, j \in DOMAIN list :
       i < j => list[i].priorityScore <= list[j].priorityScore

\* the popups whose batch the backend completed
Completed == {p \in Popups : popup[p].result.returned}

\* s without some of its entries
IsRestriction(f, g) ==
  DOMAIN f \subseteq DOMAIN g /\ \A id \in DOMAIN f : f[id] = g[id]

Extracting == {p \in Popups : popup[p].pc \in {"querying", "extracting"}}

\* C29: at most one extractAllTabs run is between its start and its return,
\* isAnalyzing is true exactly then, and an extract-tabs message that met a
\* running extraction was answered an empty list, nothing extracted for it.
C29_OneExtractionAtATime ==
  /\ Cardinality(Extracting) <= 1
  /\ tabManager.isAnalyzing <=> Extracting # {}
  /\ \A p \in Popups :
       popup[p].refused => popup[p].tabData = <<>> /\ popup[p].pc = "failed"

\* p2 asked while the extraction for p1 ran and got nothing; the extraction
\* for p1 has returned its three tabs and isAnalyzing is false again
C29_Witness ==
  /\ popup["p2"].refused
  /\ popup["p2"].tabData = <<>>
  /\ popup["p1"].pc = "requesting"
  /\ popup["p1"].tabData = <<1, 2, 3>>
  /\ ~tabManager.isAnalyzing

\* C30: a tab tabs.onRemoved has fired for is in no later state in
\* tabManager.tabSummaries or in the list of get-sorted-results.
C30_RemovedTabStaysAbsent ==
  \A tabId \in removed :
    /\ tabId \notin DOMAIN tabManager.tabSummaries
    /\ \A i \in DOMAIN GetSortedResults(tabManager) :
         GetSortedResults(tabManager)[i].id # tabId

\* C27: once organize-tabs is done and every move succeeded, the tabs moved
\* that are still open stand at the head of the strip, in cluster order and
\* inside a cluster in tabIds order.
C27_ClusteredTabsLead ==
  (organizer.pc = "done" /\ ~organizer.failed) =>
    LET open(id) == id \in Range(strip)
        expected == FilterSeq(organizer.moved, open)
    IN /\ Len(expected) <= Len(strip)
       /\ SubSeq(strip, 1, Len(expected)) = expected

====
